---- MODULE Spec2Model ----
(***************************************************************************)
(* Model of the chat backend of openwebui-workflow-hub: the in-memory      *)
(* SessionService, the LangflowService adapter, the fastify routes of      *)
(* routes/chat.ts and routes/sessions.ts, the websocket handler, and the   *)
(* ChatProvider of the browser that calls the routes.                      *)
(*                                                                         *)
(* Strings are kept as run-length encoded sequences of [c, n] runs (the    *)
(* character c repeated n >= 1 times, adjacent runs with different c), so  *)
(* that a 10001 character message is a value TLC can hold.  Dates are      *)
(* integers read from a clock that never goes backwards.  uuidv4() hands   *)
(* out the next unused integer.                                            *)
(***************************************************************************)
EXTENDS Integers, Sequences, FiniteSets, TLC

VARIABLES
    sessions,      \* StoreSpec: the Map of one SessionService instance
    chatSessions,  \* the Map of the SessionService instance of routes/chat.ts
    routeSessions, \* the Map of the SessionService instance of routes/sessions.ts
    inflight,      \* the POST /api/chat/send handlers, each with its locals
    clock,         \* the last value new Date() returned
    uuids,         \* how many uuidv4() values have been handed out
    last,          \* the last call made and what it returned
    sockets,       \* SocketSpec: the websocket connections and the frames sent on each
    browser        \* BrowserSpec: the state and the pending sendMessage of ChatProvider

vars ==
    <<sessions, chatSessions, routeSessions, inflight, clock, uuids, last,
      sockets, browser>>

----------------------------------------------------------------------------
(* Bounds of the model *)

MaxTime == 1       \* the clock reads 0..MaxTime
MaxSend == 2       \* Spec: POST /api/chat/send requests in a run
MaxPost == 1       \* Spec: POST /api/sessions requests that create a session
MaxChatSend == MaxSend + 1   \* ChatSpec: POST /api/chat/send requests in a run
MaxCreate == 2     \* StoreSpec: createSession is called at most MaxCreate times
MaxMsgs == 2       \* StoreSpec: messages held by the store at any time
MaxConn == 2       \* SocketSpec: websocket connections in a run
MaxFrames == 2     \* SocketSpec: frames a connection receives

(* Program constants *)

TitleLimit == 50       \* message.content.slice(0, 50)
MessageMin == 1        \* z.string().min(1)
MessageMax == 10000    \* z.string().max(10000)

----------------------------------------------------------------------------
(* Strings *)

Rep(c, n) == IF n = 0 THEN << >> ELSE << [c |-> c, n |-> n] >>

RECURSIVE StrLen(_)
StrLen(s) == IF s = << >> THEN 0 ELSE Head(s).n + StrLen(Tail(s))

\* s + t
StrCat(s, t) ==
    IF s = << >> THEN t
    ELSE IF t = << >> THEN s
    ELSE IF s[Len(s)].c = t[1].c
         THEN SubSeq(s, 1, Len(s) - 1)
              \o << [c |-> t[1].c, n |-> s[Len(s)].n + t[1].n] >>
              \o Tail(t)
         ELSE s \o t

\* s.slice(0, k)
RECURSIVE StrSlice(_, _)
StrSlice(s, k) ==
    IF k <= 0 \/ s = << >> THEN << >>
    ELSE IF Head(s).n >= k THEN << [c |-> Head(s).c, n |-> k] >>
    ELSE << Head(s) >> \o StrSlice(Tail(s), k - Head(s).n)

NewChat ==
    << [c |-> "N", n |-> 1], [c |-> "e", n |-> 1], [c |-> "w", n |-> 1],
       [c |-> " ", n |-> 1], [c |-> "C", n |-> 1], [c |-> "h", n |-> 1],
       [c |-> "a", n |-> 1], [c |-> "t", n |-> 1] >>

Ellipsis == Rep(".", 3)

----------------------------------------------------------------------------
(* Values *)

NoId == 0                      \* no session id (undefined)
NoFlow == "undefined"          \* flowId: undefined
Uuids == 1..(3 * MaxChatSend + MaxPost + MaxCreate)  \* more than a run hands out
Roles == {"user", "assistant", "system"}

\* new Date(): any value not before the last one read
Later(t) == t..MaxTime

----------------------------------------------------------------------------
(* SessionService: each method as a function of the Map it works on *)

EmptyMap == [k \in {} |-> NoId]

\* Map.get(sessionId) finds an entry
Has(map, sessionId) == sessionId \in DOMAIN map

\* this.sessions.set(session.id, session)
MapSet(map, key, session) ==
    [k \in DOMAIN map \cup {key} |-> IF k = key THEN session ELSE map[k]]

\* createSession(flowId): id is the uuidv4() value, t1 and t2 the two new Date()
createSession(map, id, flowId, t1, t2) ==
    MapSet(map, id, [id |-> id, title |-> NewChat, messages |-> << >>,
                     createdAt |-> t1, updatedAt |-> t2, flowId |-> flowId])

\* getSession(sessionId) where the entry exists
getSession(map, sessionId) == map[sessionId]

\* a title that gets the ellipsis from TitleLimit characters on
DerivedTitleEager(content) ==
    StrCat(StrSlice(content, TitleLimit),
           IF StrLen(content) >= TitleLimit THEN Ellipsis ELSE << >>)

\* the title addMessage derives from the first user message
DerivedTitle(content) ==
    StrCat(StrSlice(content, TitleLimit),
           IF StrLen(content) > TitleLimit THEN Ellipsis ELSE << >>)

\* a push that skips a message of the same role as the one before it
PushDeduped(messages, message) ==
    IF messages # << >> /\ messages[Len(messages)].role = message.role
    THEN messages
    ELSE Append(messages, message)

\* a push at the front
PushFront(messages, message) == << message >> \o messages

\* messages.push(message)
Push(messages, message) == Append(messages, message)

\* an addMessage that stamps every session of the Map with the time of the append
addMessageTouchAll(map, sessionId, message, t) ==
    IF ~Has(map, sessionId) THEN map
    ELSE [k \in DOMAIN map |->
            IF k # sessionId THEN [map[k] EXCEPT !.updatedAt = t]
            ELSE LET pushed == Push(map[k].messages, message)
                 IN  [map[k] EXCEPT
                        !.messages = pushed,
                        !.updatedAt = t,
                        !.title = IF message.role = "user" /\ Len(pushed) = 1
                                  THEN DerivedTitle(message.content)
                                  ELSE @]]

\* an addMessage that opens a session for an id the Map does not hold
addMessageUpsert(map, sessionId, message, t) ==
    LET session == IF Has(map, sessionId) THEN map[sessionId]
                   ELSE [id |-> sessionId, title |-> NewChat, messages |-> << >>,
                         createdAt |-> t, updatedAt |-> t, flowId |-> NoFlow]
        pushed == Push(session.messages, message)
    IN  MapSet(map, sessionId,
            [session EXCEPT
                !.messages = pushed,
                !.updatedAt = t,
                !.title = IF message.role = "user" /\ Len(pushed) = 1
                          THEN DerivedTitle(message.content)
                          ELSE @])

\* an addMessage that derives the title from every user message
addMessageRetitle(map, sessionId, message, t) ==
    IF ~Has(map, sessionId) THEN map
    ELSE LET session == map[sessionId]
         IN  MapSet(map, sessionId,
                 [session EXCEPT
                    !.messages = Push(session.messages, message),
                    !.updatedAt = t,
                    !.title = IF message.role = "user"
                              THEN DerivedTitle(message.content)
                              ELSE @])

\* addMessage(sessionId, message): t is its new Date()
addMessage(map, sessionId, message, t) ==
    IF ~Has(map, sessionId) THEN map
    ELSE LET session == map[sessionId]
             pushed == Push(session.messages, message)
         IN  MapSet(map, sessionId,
                 [session EXCEPT
                    !.messages = pushed,
                    !.updatedAt = t,
                    !.title = IF message.role = "user" /\ Len(pushed) = 1
                              THEN DerivedTitle(message.content)
                              ELSE @])

\* Object.assign(session, updates, { updatedAt: t })
Assign(session, updates, t) ==
    [k \in DOMAIN session \cup DOMAIN updates |->
        IF k = "updatedAt" THEN t
        ELSE IF k \in DOMAIN updates THEN updates[k]
        ELSE session[k]]

\* updateSession(sessionId, updates): t is its new Date()
updateSession(map, sessionId, updates, t) ==
    IF ~Has(map, sessionId) THEN map
    ELSE MapSet(map, sessionId, Assign(map[sessionId], updates, t))

\* a delete that drops the oldest session along with the one named
deleteSessionAndOldest(map, sessionId) ==
    IF ~Has(map, sessionId) THEN map
    ELSE [k \in DOMAIN map \ {sessionId, CHOOSE x \in DOMAIN map :
                                           \A y \in DOMAIN map : x <= y} |-> map[k]]

\* deleteSession(sessionId): the Map afterwards (it returns Has(map, sessionId))
deleteSession(map, sessionId) ==
    [k \in DOMAIN map \ {sessionId} |-> map[k]]

\* clearAllSessions()
clearAllSessions(map) == EmptyMap

\* Array.from(this.sessions.values()): a Map iterates in insertion order, and
\* keys are inserted in the order uuidv4() hands them out
RECURSIVE Values(_, _)
Values(map, keys) ==
    IF keys = {} THEN << >>
    ELSE LET k == CHOOSE x \in keys : \A y \in keys : x <= y
         IN  << map[k] >> \o Values(map, keys \ {k})

\* an insert that puts x before its equals
RECURSIVE SortInsertTiesFirst(_, _)
SortInsertTiesFirst(sorted, x) ==
    IF sorted = << >> THEN << x >>
    ELSE IF Head(sorted).updatedAt - x.updatedAt <= 0
         THEN << x >> \o sorted
         ELSE << Head(sorted) >> \o SortInsertTiesFirst(Tail(sorted), x)

\* insert x into a sequence sorted by (b.updatedAt - a.updatedAt), after its equals
RECURSIVE SortInsert(_, _)
SortInsert(sorted, x) ==
    IF sorted = << >> THEN << x >>
    ELSE IF Head(sorted).updatedAt - x.updatedAt < 0
         THEN << x >> \o sorted
         ELSE << Head(sorted) >> \o SortInsert(Tail(sorted), x)

\* Array.prototype.sort with (a, b) => b.updatedAt - a.updatedAt, which is stable
RECURSIVE SortByUpdated(_)
SortByUpdated(seq) ==
    IF seq = << >> THEN << >>
    ELSE SortInsert(SortByUpdated(SubSeq(seq, 1, Len(seq) - 1)), seq[Len(seq)])

\* getAllSessions()
getAllSessions(map) == SortByUpdated(Values(map, DOMAIN map))

----------------------------------------------------------------------------
(* LangflowService.sendMessage *)

\* a string literal, one character per element
RECURSIVE Lit(_)
Lit(chars) ==
    IF chars = << >> THEN << >> ELSE StrCat(Rep(Head(chars), 1), Lit(Tail(chars)))

NoResponse == Lit(<< "N", "o", " ", "r", "e", "s", "p", "o", "n", "s", "e" >>)

\* an optional field of the engine's body: << >> when missing, << v >> when there
Missing == << >>
Given(v) == << v >>

\* a || b on optional strings: a when it is there and not empty, otherwise b
OrElse(a, b) == IF a # Missing /\ a[1] # << >> THEN a[1] ELSE b

\* response.data.outputs?.[0]?.outputs?.[0]?.results?.message?.text
\*   || response.data.result || 'No response'
Normalize(data) == OrElse(data.text, OrElse(data.result, NoResponse))

\* response.data.duration || 0
Duration(data) == IF data.duration # Missing /\ data.duration[1] # 0
                  THEN data.duration[1] ELSE 0

\* the value sendMessage returns for a 2xx answer with an object body; t is the
\* new Date() of metadata.timestamp
LangflowResult(data, t) ==
    [result |-> Normalize(data),
     metadata |-> [duration |-> Duration(data), timestamp |-> t]]

\* sendMessage(request): outcome is what `await this.client.post` came to (a
\* 2xx answer with its body, or the error axios rejected with), t the new
\* Date() of metadata.timestamp.  A body of null makes response.data.outputs
\* a TypeError, which the catch wraps like any other error.
sendMessage(outcome, t) ==
    IF outcome.kind = "response"
    THEN [returned |-> TRUE, value |-> LangflowResult(outcome.data, t)]
    ELSE [returned |-> FALSE,
          error |-> [name |-> "Error",
                     message |-> << "Langflow API error: ", outcome.message >>]]

----------------------------------------------------------------------------
(* Request validation (zod) *)

NotUuid == -1          \* a sessionId string that is no uuid
UnknownUuid == 99      \* a well-formed uuid that uuidv4() never returns here

IsUuid(x) == x \in Uuids \/ x = UnknownUuid

\* SendMessageSchema.parse(request.body) does not throw
SendMessageSchema(body) ==
    /\ StrLen(body.message) >= MessageMin
    /\ StrLen(body.message) <= MessageMax
    /\ (body.sessionId # NoId => IsUuid(body.sessionId))

\* GetMessagesSchema.parse(request.params) does not throw
GetMessagesSchema(sessionId) == IsUuid(sessionId)

\* a schema that lets every key through
UpdateSessionPassthrough(body) == body

\* UpdateSessionSchema.parse(request.body): z.object strips the unknown keys
UpdateSessionSchema(body) ==
    [k \in DOMAIN body \cap {"title", "flowId"} |-> body[k]]

----------------------------------------------------------------------------
(* Initial state: the three SessionService instances are empty Maps *)

Idle == [pc |-> "idle"]

\* a connection that was not opened yet
NoSocket == [state |-> "none", sent |-> << >>, received |-> 0]

\* ChatProvider after its first render: useState([]), useState(null), and no
\* sendMessage under way
NoBrowser ==
    [pc |-> "idle", sessions |-> << >>, currentSession |-> NoId, calls |-> 0,
     closure |-> NoId, created |-> NoId, result |-> "none"]

Init ==
    /\ sessions = EmptyMap
    /\ chatSessions = EmptyMap
    /\ routeSessions = EmptyMap
    /\ inflight = [r \in 1..MaxChatSend |-> Idle]
    /\ clock = 0
    /\ uuids = 0
    /\ last = [op |-> "none"]
    /\ sockets = [c \in 1..MaxConn |-> NoSocket]
    /\ browser = NoBrowser

----------------------------------------------------------------------------
(* StoreSpec: the methods of one SessionService instance, called directly *)

ShortText == Rep("a", 2)
LongText == Rep("a", TitleLimit + 1)
OtherTitle == Rep("t", 1)

\* the ids a caller may pass: the id of every stored session, and one that no
\* session has (a session that was deleted, or never existed)
KnownIds ==
    DOMAIN sessions \cup DOMAIN chatSessions \cup DOMAIN routeSessions
    \cup {UnknownUuid}

\* the Message values a caller may pass
StoreMessages ==
    { [id |-> 1, content |-> c, role |-> "user", timestamp |-> 0, flowId |-> NoFlow] :
        c \in {ShortText, LongText} }
    \cup
    { [id |-> 1, content |-> ShortText, role |-> r, timestamp |-> 0, flowId |-> NoFlow] :
        r \in {"assistant", "system"} }

\* the Partial<ChatSession> values a caller may pass
StoreUpdates ==
    { [title |-> OtherTitle], [flowId |-> "f2"] }

RECURSIVE CountMessages(_, _)
CountMessages(map, keys) ==
    IF keys = {} THEN 0
    ELSE LET k == CHOOSE x \in keys : TRUE
         IN  Len(map[k].messages) + CountMessages(map, keys \ {k})

StoreUnchanged == UNCHANGED <<chatSessions, routeSessions, inflight, sockets, browser>>

CallCreateSession ==
    /\ uuids < MaxCreate
    /\ \E flowId \in {NoFlow, "f1"} : \E t1 \in Later(clock) : \E t2 \in Later(t1) :
        /\ sessions' = createSession(sessions, uuids + 1, flowId, t1, t2)
        /\ uuids' = uuids + 1
        /\ clock' = t2
        /\ last' = [op |-> "createSession", id |-> uuids + 1, flowId |-> flowId]
    /\ StoreUnchanged

CallGetSession ==
    /\ \E id \in KnownIds :
        last' = [op |-> "getSession", id |-> id, found |-> Has(sessions, id)]
    /\ UNCHANGED <<sessions, clock, uuids>>
    /\ StoreUnchanged

CallGetAllSessions ==
    /\ last' = [op |-> "getAllSessions",
                ids |-> [i \in 1..Len(getAllSessions(sessions)) |->
                            getAllSessions(sessions)[i].id]]
    /\ UNCHANGED <<sessions, clock, uuids>>
    /\ StoreUnchanged

CallAddMessage ==
    /\ \E id \in KnownIds : \E message \in StoreMessages :
        /\ Has(sessions, id) => CountMessages(sessions, DOMAIN sessions) < MaxMsgs
        /\ \E t \in (IF Has(sessions, id) THEN Later(clock) ELSE {clock}) :
            /\ sessions' = addMessage(sessions, id, message, t)
            /\ clock' = t
            /\ last' = [op |-> "addMessage", id |-> id, message |-> message,
                        found |-> Has(sessions, id)]
    /\ UNCHANGED uuids
    /\ StoreUnchanged

CallUpdateSession ==
    /\ \E id \in KnownIds : \E updates \in StoreUpdates :
        \E t \in (IF Has(sessions, id) THEN Later(clock) ELSE {clock}) :
            /\ sessions' = updateSession(sessions, id, updates, t)
            /\ clock' = t
            /\ last' = [op |-> "updateSession", id |-> id, updates |-> updates,
                        found |-> Has(sessions, id)]
    /\ UNCHANGED uuids
    /\ StoreUnchanged

CallDeleteSession ==
    /\ \E id \in KnownIds :
        /\ sessions' = deleteSession(sessions, id)
        /\ last' = [op |-> "deleteSession", id |-> id, found |-> Has(sessions, id)]
    /\ UNCHANGED <<clock, uuids>>
    /\ StoreUnchanged

CallClearAllSessions ==
    /\ sessions' = clearAllSessions(sessions)
    /\ last' = [op |-> "clearAllSessions"]
    /\ UNCHANGED <<clock, uuids>>
    /\ StoreUnchanged

StoreNext ==
    \/ CallCreateSession
    \/ CallGetSession
    \/ CallGetAllSessions
    \/ CallAddMessage
    \/ CallUpdateSession
    \/ CallDeleteSession
    \/ CallClearAllSessions

StoreSpec == Init /\ [][StoreNext]_vars

----------------------------------------------------------------------------
(* TitleSpec: addMessage called with contents around TitleLimit characters *)

\* contents of TitleLimit - 1 to TitleLimit + 2 characters, some with a second
\* character or a "." at the cut, and the 11 and 60 characters of the examples
TitleContents ==
    { StrCat(Rep("a", i), Rep(c, j)) :
        i \in {TitleLimit - 1, TitleLimit}, j \in 0..2, c \in {"b", "."} }
    \cup {Rep("a", 11), Rep("a", 60)}

TitleMessages ==
    { [id |-> 1, content |-> c, role |-> "user", timestamp |-> 0, flowId |-> NoFlow] :
        c \in TitleContents }
    \cup
    { [id |-> 1, content |-> ShortText, role |-> "assistant", timestamp |-> 0,
       flowId |-> NoFlow] }

CallAddMessageTitled ==
    /\ \E id \in KnownIds : \E message \in TitleMessages :
        /\ Has(sessions, id) => CountMessages(sessions, DOMAIN sessions) < MaxMsgs
        /\ \E t \in (IF Has(sessions, id) THEN Later(clock) ELSE {clock}) :
            /\ sessions' = addMessage(sessions, id, message, t)
            /\ clock' = t
            /\ last' = [op |-> "addMessage", id |-> id, message |-> message,
                        found |-> Has(sessions, id)]
    /\ UNCHANGED uuids
    /\ StoreUnchanged

TitleNext ==
    \/ CallCreateSession
    \/ CallAddMessageTitled

TitleSpec == Init /\ [][TitleNext]_vars

----------------------------------------------------------------------------
(* UpdateSpec: updateSession called with any Partial<ChatSession> *)

\* the Partial<ChatSession> values the signature of updateSession admits
AnyUpdates ==
    StoreUpdates
    \cup { [id |-> UnknownUuid], [createdAt |-> MaxTime],
           [messages |-> << [id |-> 1, content |-> ShortText, role |-> "system",
                             timestamp |-> 0, flowId |-> NoFlow] >>],
           [title |-> OtherTitle, id |-> UnknownUuid] }

CallUpdateSessionAny ==
    /\ \E id \in KnownIds : \E updates \in AnyUpdates :
        \E t \in (IF Has(sessions, id) THEN Later(clock) ELSE {clock}) :
            /\ sessions' = updateSession(sessions, id, updates, t)
            /\ clock' = t
            /\ last' = [op |-> "updateSession", id |-> id, updates |-> updates,
                        found |-> Has(sessions, id)]
    /\ UNCHANGED uuids
    /\ StoreUnchanged

UpdateNext ==
    \/ CallCreateSession
    \/ CallUpdateSessionAny

UpdateSpec == Init /\ [][UpdateNext]_vars

----------------------------------------------------------------------------
(* ClientSpec: LangflowService.sendMessage called on its own *)

Answer == Rep("r", 2)
OtherAnswer == Rep("s", 1)

\* a string field of the engine's body: missing, empty, or one of three texts
ClientTexts ==
    {Missing, Given(<< >>), Given(Answer), Given(OtherAnswer), Given(NoResponse)}

ClientBodies ==
    [text : ClientTexts, result : ClientTexts, duration : {Missing, Given(0), Given(3)}]

\* what the POST to /api/v1/run can come to
ClientOutcomes ==
    { [kind |-> "response", data |-> d] : d \in ClientBodies }
    \cup { [kind |-> "null",
            message |-> "Cannot read properties of null (reading 'outputs')"],
           [kind |-> "network", message |-> "Network Error"],
           [kind |-> "timeout", message |-> "timeout of 30000ms exceeded"] }
    \cup { [kind |-> "status", status |-> c,
            message |-> << "Request failed with status code ", c >>] : c \in {404, 500, 503} }

CallSendMessage ==
    /\ \E outcome \in ClientOutcomes : \E t \in Later(clock) :
        /\ last' = [op |-> "sendMessage", outcome |-> outcome,
                    reply |-> sendMessage(outcome, t)]
        /\ clock' = t
    /\ UNCHANGED <<sessions, chatSessions, routeSessions, inflight, uuids, sockets, browser>>

ClientNext == CallSendMessage

ClientSpec == Init /\ [][ClientNext]_vars

----------------------------------------------------------------------------
(* SocketSpec: websocketHandler and its 'message' and 'close' listeners.  A   *)
(* listener runs only after websocketHandler has returned (one thread).       *)

\* JSON values: a string, and new Date().toISOString()
Str(chars) == [str |-> chars]
Iso(t) == [iso |-> t]

\* the data of an incoming envelope: an object, or Missing when the envelope
\* has no data
EmptyObject == [k \in {} |-> Missing]
FrameData ==
    { Given(EmptyObject),
      Given([text |-> Str("hi")]),
      Given([text |-> Str("hi"), echo |-> FALSE]),
      Given([text |-> Str("hi"), timestamp |-> Str("then")]),
      Missing }

\* the frames a client may send, each as what JSON.parse makes of its text:
\* it throws ("invalid"), or returns null, a number, or an object whose type
\* and data may be missing
Frames ==
    { [json |-> j] : j \in {"invalid", "null", "number"} }
    \cup { [json |-> "object", type |-> Given("message"), data |-> d] : d \in FrameData }
    \cup { [json |-> "object", type |-> ty, data |-> Given([text |-> Str("hi")])] :
             ty \in {Given("status"), Given("typing"), Given("error"), Given("ping"),
                     Missing} }
    \cup { [json |-> "object", type |-> Missing, data |-> Missing] }

\* { ...a, ...b }
Spread(a, b) ==
    [k \in DOMAIN a \cup DOMAIN b |-> IF k \in DOMAIN b THEN b[k] ELSE a[k]]

\* the frame sent when the connection opens
ConnectedFrame(t) ==
    [type |-> "status", data |-> [status |-> Str("connected"), timestamp |-> Iso(t)]]

\* the frame the catch of the 'message' listener sends
ErrorFrame == [type |-> "error", data |-> [error |-> Str("Invalid message format")]]

\* an echo that carries the incoming data alone
handleChatMessageBare(data, t) ==
    << [type |-> "message",
        data |-> IF data.data = Missing THEN EmptyObject ELSE data.data[1]] >>

\* handleChatMessage(connection, data): the frames it sends; t is its new Date()
handleChatMessage(data, t) ==
    << [type |-> "message",
        data |-> Spread(IF data.data = Missing THEN EmptyObject ELSE data.data[1],
                        [echo |-> TRUE, timestamp |-> Iso(t)])] >>

\* a status handler that acknowledges
handleStatusUpdateAck(data) ==
    << [type |-> "status", data |-> [status |-> Str("ok")]] >>

\* handleStatusUpdate(connection, data): the frames it sends (it only logs)
handleStatusUpdate(data) == << >>

\* data.type, where data is not null: undefined for a number and for an object
\* without a type
TypeOf(data) == IF data.json = "object" THEN data.type ELSE Missing

\* the 'message' listener: the frames it sends for an incoming frame.  JSON.parse
\* throws on a text that is no JSON, and data.type throws on null; the catch
\* answers both with the error frame.
OnMessage(frame, t) ==
    IF frame.json \in {"invalid", "null"} THEN << ErrorFrame >>
    ELSE IF TypeOf(frame) = Given("message") THEN handleChatMessage(frame, t)
    ELSE IF TypeOf(frame) = Given("status") THEN handleStatusUpdate(frame)
    ELSE << >>

SocketUnchanged ==
    UNCHANGED <<sessions, chatSessions, routeSessions, inflight, uuids, browser>>

\* a handler that leaves the confirmation to the first incoming frame
websocketHandlerLazy(c) ==
    /\ sockets[c].state = "none"
    /\ sockets' = [sockets EXCEPT ![c].state = "open"]
    /\ last' = [op |-> "connect", conn |-> c]
    /\ UNCHANGED clock
    /\ SocketUnchanged

\* websocketHandler(connection): registers the listeners and sends the
\* connection confirmation
websocketHandler(c) ==
    /\ sockets[c].state = "none"
    /\ \E t \in Later(clock) :
        /\ sockets' = [sockets EXCEPT ![c].state = "open",
                                      ![c].sent = << ConnectedFrame(t) >>]
        /\ clock' = t
    /\ last' = [op |-> "connect", conn |-> c]
    /\ SocketUnchanged

\* connection.socket.on('message', ...) fires
SocketMessage(c) ==
    /\ sockets[c].state = "open"
    /\ sockets[c].received < MaxFrames
    /\ \E frame \in Frames :
       \E t \in (IF TypeOf(frame) = Given("message") THEN Later(clock) ELSE {clock}) :
        /\ sockets' = [sockets EXCEPT ![c].sent = @ \o OnMessage(frame, t),
                                      ![c].received = @ + 1]
        /\ clock' = t
        /\ last' = [op |-> "frame", conn |-> c, frame |-> frame]
    /\ SocketUnchanged

\* connection.socket.on('close', ...) fires
SocketClose(c) ==
    /\ sockets[c].state = "open"
    /\ sockets' = [sockets EXCEPT ![c].state = "closed"]
    /\ last' = [op |-> "close", conn |-> c]
    /\ UNCHANGED clock
    /\ SocketUnchanged

SocketNext ==
    \/ \E c \in 1..MaxConn : websocketHandler(c)
    \/ \E c \in 1..MaxConn : SocketMessage(c)
    \/ \E c \in 1..MaxConn : SocketClose(c)

SocketSpec == Init /\ [][SocketNext]_vars

----------------------------------------------------------------------------
(* Spec: the HTTP routes.  A handler runs without interruption up to its     *)
(* await and from the await to its reply (one thread, run to completion).    *)

NoSession == [id |-> NoId]     \* getSession returned undefined
TooLong == Rep("a", MessageMax + 1)

\* the bodies a client may POST to /api/chat/send
SendBodies ==
    [message : {ShortText, << >>, TooLong},
     sessionId : KnownIds \cup {NoId, NotUuid},
     flowId : {"f1"}]

\* the bodies the engine may answer POST /api/v1/run with (2xx)
EngineBodies ==
    { [text |-> Given(Answer), result |-> Missing, duration |-> Given(3)],
      [text |-> Missing, result |-> Missing, duration |-> Missing] }

\* the bodies a client may PATCH /api/sessions/:sessionId with
PatchBodies ==
    { [title |-> OtherTitle], [flowId |-> "f2"],
      [messages |-> << [id |-> UnknownUuid, content |-> ShortText, role |-> "system",
                        timestamp |-> 0, flowId |-> NoFlow] >>],
      [id |-> UnknownUuid, createdAt |-> MaxTime, messages |-> << >>] }

\* how many uuidv4() values went to sessions and messages of routes/chat.ts,
\* whose store never drops a session
ChatUuids ==
    Cardinality(DOMAIN chatSessions) + CountMessages(chatSessions, DOMAIN chatSessions)

\* the session a handler reads back for its reply
Lookup(map, sessionId) ==
    IF Has(map, sessionId) THEN getSession(map, sessionId) ELSE NoSession

\* a handler that starts only when every earlier send has been answered
PostSendBlocking(r) ==
    /\ inflight[r].pc = "idle"
    /\ \A q \in 1..(r - 1) : inflight[q].pc = "replied"
    /\ \E body \in SendBodies :
        IF ~SendMessageSchema(body)
        THEN /\ inflight' = [inflight EXCEPT ![r] =
                    [pc |-> "replied", status |-> 500, success |-> FALSE,
                     resolved |-> FALSE]]
             /\ UNCHANGED <<chatSessions, clock, uuids>>
        ELSE LET found == body.sessionId # NoId /\ Has(chatSessions, body.sessionId)
                 sid == IF found THEN body.sessionId ELSE uuids + 1
                 mid == IF found THEN uuids + 1 ELSE uuids + 2
             IN  /\ \E t1 \in Later(clock) : \E t2 \in Later(t1) :
                    \E t3 \in Later(t2) : \E t4 \in Later(t3) :
                    LET map == IF found THEN chatSessions
                               ELSE createSession(chatSessions, sid, body.flowId, t1, t2)
                        userMessage ==
                            [id |-> mid, content |-> body.message, role |-> "user",
                             timestamp |-> t3, flowId |-> map[sid].flowId]
                    IN  /\ (found => t1 = clock /\ t2 = clock)
                        /\ chatSessions' = addMessage(map, sid, userMessage, t4)
                        /\ inflight' = [inflight EXCEPT ![r] =
                               [pc |-> "await", body |-> body, resolved |-> TRUE,
                                found |-> found, session |-> sid,
                                userMessage |-> userMessage]]
                        /\ clock' = t4
                        /\ uuids' = mid
    /\ UNCHANGED <<sessions, routeSessions, last, sockets, browser>>

\* a handler that calls the engine before it appends the user message
PostSendEngineFirst(r) ==
    /\ inflight[r].pc = "idle"
    /\ \A q \in 1..(r - 1) : inflight[q].pc # "idle"
    /\ \E body \in SendBodies :
        IF ~SendMessageSchema(body)
        THEN /\ inflight' = [inflight EXCEPT ![r] =
                    [pc |-> "replied", status |-> 500, success |-> FALSE,
                     resolved |-> FALSE]]
             /\ UNCHANGED <<chatSessions, clock, uuids>>
        ELSE LET found == body.sessionId # NoId /\ Has(chatSessions, body.sessionId)
                 sid == IF found THEN body.sessionId ELSE uuids + 1
                 mid == IF found THEN uuids + 1 ELSE uuids + 2
             IN  /\ \E t1 \in Later(clock) : \E t2 \in Later(t1) : \E t3 \in Later(t2) :
                    LET map == IF found THEN chatSessions
                               ELSE createSession(chatSessions, sid, body.flowId, t1, t2)
                        userMessage ==
                            [id |-> mid, content |-> body.message, role |-> "user",
                             timestamp |-> t3, flowId |-> map[sid].flowId]
                    IN  /\ (found => t1 = clock /\ t2 = clock)
                        /\ chatSessions' = map
                        /\ inflight' = [inflight EXCEPT ![r] =
                               [pc |-> "await", body |-> body, resolved |-> TRUE,
                                found |-> found, session |-> sid,
                                userMessage |-> userMessage]]
                        /\ clock' = t3
                        /\ uuids' = mid
    /\ UNCHANGED <<sessions, routeSessions, last, sockets, browser>>

\* routes/chat.ts POST /send, to the await of langflowService.sendMessage
PostSend(r) ==
    /\ inflight[r].pc = "idle"
    /\ \A q \in 1..(r - 1) : inflight[q].pc # "idle"
    /\ \E body \in SendBodies :
        IF ~SendMessageSchema(body)
        THEN /\ inflight' = [inflight EXCEPT ![r] =
                    [pc |-> "replied", status |-> 500, success |-> FALSE,
                     resolved |-> FALSE]]
             /\ UNCHANGED <<chatSessions, clock, uuids>>
        ELSE LET found == body.sessionId # NoId /\ Has(chatSessions, body.sessionId)
                 sid == IF found THEN body.sessionId ELSE uuids + 1
                 mid == IF found THEN uuids + 1 ELSE uuids + 2
             IN  /\ \E t1 \in Later(clock) : \E t2 \in Later(t1) :
                    \E t3 \in Later(t2) : \E t4 \in Later(t3) :
                    LET map == IF found THEN chatSessions
                               ELSE createSession(chatSessions, sid, body.flowId, t1, t2)
                        userMessage ==
                            [id |-> mid, content |-> body.message, role |-> "user",
                             timestamp |-> t3, flowId |-> map[sid].flowId]
                    IN  /\ (found => t1 = clock /\ t2 = clock)
                        /\ chatSessions' = addMessage(map, sid, userMessage, t4)
                        /\ inflight' = [inflight EXCEPT ![r] =
                               [pc |-> "await", body |-> body, resolved |-> TRUE,
                                found |-> found, session |-> sid,
                                userMessage |-> userMessage]]
                        /\ clock' = t4
                        /\ uuids' = mid
    /\ UNCHANGED <<sessions, routeSessions, last, sockets, browser>>

\* a success branch that reads the session for its reply before it appends
SendReplyStale(r) ==
    /\ inflight[r].pc = "await"
    /\ \E data \in EngineBodies : \E t1 \in Later(clock) :
        LET langflowResponse == LangflowResult(data, t1)
            sid == inflight[r].session
            assistantMessage ==
                [id |-> uuids + 1, content |-> langflowResponse.result,
                 role |-> "assistant", timestamp |-> t1,
                 flowId |-> inflight[r].userMessage.flowId,
                 metadata |-> langflowResponse.metadata]
        IN  /\ chatSessions' = addMessage(chatSessions, sid, assistantMessage, t1)
            /\ inflight' = [inflight EXCEPT ![r] =
                   [@ EXCEPT !.pc = "replied"] @@
                   [status |-> 200, success |-> TRUE, sessionId |-> sid,
                    data |-> data, assistantMessage |-> assistantMessage,
                    replySession |-> Lookup(chatSessions, sid)]]
            /\ clock' = t1
            /\ uuids' = uuids + 1
    /\ UNCHANGED <<sessions, routeSessions, last, sockets, browser>>

\* POST /send from the engine's 2xx answer to reply.send
SendReply(r) ==
    /\ inflight[r].pc = "await"
    /\ \E data \in EngineBodies :
       \E t1 \in Later(clock) : \E t2 \in Later(t1) : \E t3 \in Later(t2) :
        LET langflowResponse == LangflowResult(data, t1)
            sid == inflight[r].session
            assistantMessage ==
                [id |-> uuids + 1, content |-> langflowResponse.result,
                 role |-> "assistant", timestamp |-> t2,
                 flowId |-> inflight[r].userMessage.flowId,
                 metadata |-> langflowResponse.metadata]
            map == addMessage(chatSessions, sid, assistantMessage,
                              IF Has(chatSessions, sid) THEN t3 ELSE t2)
        IN  /\ (~Has(chatSessions, sid) => t3 = t2)
            /\ chatSessions' = map
            /\ inflight' = [inflight EXCEPT ![r] =
                   [@ EXCEPT !.pc = "replied"] @@
                   [status |-> 200, success |-> TRUE, sessionId |-> sid,
                    data |-> data, assistantMessage |-> assistantMessage,
                    replySession |-> Lookup(map, sid)]]
            /\ clock' = t3
            /\ uuids' = uuids + 1
    /\ UNCHANGED <<sessions, routeSessions, last, sockets, browser>>

\* a catch branch that deletes the session the handler created
SendCatchDropSession(r) ==
    /\ inflight[r].pc = "await"
    /\ inflight' = [inflight EXCEPT ![r] =
           [@ EXCEPT !.pc = "replied"] @@ [status |-> 500, success |-> FALSE]]
    /\ chatSessions' = IF inflight[r].found THEN chatSessions
                       ELSE deleteSession(chatSessions, inflight[r].session)
    /\ UNCHANGED <<sessions, routeSessions, clock, uuids, last, sockets, browser>>

\* a catch branch that takes the user message out of the session again
SendCatchRollback(r) ==
    /\ inflight[r].pc = "await"
    /\ inflight' = [inflight EXCEPT ![r] =
           [@ EXCEPT !.pc = "replied"] @@ [status |-> 500, success |-> FALSE]]
    /\ chatSessions' =
         LET sid == inflight[r].session
             old == chatSessions[sid].messages
             keep == SelectSeq(old, LAMBDA m : m.id # inflight[r].userMessage.id)
         IN  [chatSessions EXCEPT ![sid].messages = keep]
    /\ UNCHANGED <<sessions, routeSessions, clock, uuids, last, sockets, browser>>

\* POST /send when langflowService.sendMessage throws: the request failed, timed
\* out or was answered with a status that is not 2xx, or the body was null
SendCatch(r) ==
    /\ inflight[r].pc = "await"
    /\ inflight' = [inflight EXCEPT ![r] =
           [@ EXCEPT !.pc = "replied"] @@ [status |-> 500, success |-> FALSE]]
    /\ UNCHANGED <<sessions, chatSessions, routeSessions, clock, uuids, last, sockets, browser>>

\* routes/chat.ts GET /messages/:sessionId: the reply, which changes no state
GetMessages(sessionId) ==
    IF ~GetMessagesSchema(sessionId) THEN [status |-> 500, success |-> FALSE]
    ELSE IF ~Has(chatSessions, sessionId) THEN [status |-> 404, success |-> FALSE]
    ELSE [status |-> 200, success |-> TRUE,
          messages |-> getSession(chatSessions, sessionId).messages,
          session |-> getSession(chatSessions, sessionId)]

ChatUnchanged == UNCHANGED <<sessions, chatSessions, inflight, last, sockets, browser>>

\* routes/sessions.ts GET /: the reply, which changes no state
GetSessions == [status |-> 200, success |-> TRUE, data |-> getAllSessions(routeSessions)]

\* routes/sessions.ts GET /:sessionId: the reply, which changes no state
GetSession(sessionId) ==
    IF ~Has(routeSessions, sessionId) THEN [status |-> 404, success |-> FALSE]
    ELSE [status |-> 200, success |-> TRUE, data |-> getSession(routeSessions, sessionId)]

\* routes/sessions.ts POST /
PostSession ==
    /\ \E body \in [flowId : {NoFlow, "f1"}] :
        /\ uuids - ChatUuids < MaxPost
        /\ \E t1 \in Later(clock) : \E t2 \in Later(t1) :
            /\ routeSessions' = createSession(routeSessions, uuids + 1, body.flowId, t1, t2)
            /\ clock' = t2
            /\ uuids' = uuids + 1
    /\ ChatUnchanged

\* routes/sessions.ts PATCH /:sessionId
PatchSession ==
    /\ \E sessionId \in KnownIds : \E body \in PatchBodies :
       \E t \in (IF Has(routeSessions, sessionId) THEN Later(clock) ELSE {clock}) :
        /\ routeSessions' =
               updateSession(routeSessions, sessionId, UpdateSessionSchema(body), t)
        /\ clock' = t
    /\ UNCHANGED uuids
    /\ ChatUnchanged

\* routes/sessions.ts DELETE /:sessionId
DeleteSession ==
    /\ \E sessionId \in KnownIds :
        routeSessions' = deleteSession(routeSessions, sessionId)
    /\ UNCHANGED <<clock, uuids>>
    /\ ChatUnchanged

\* routes/sessions.ts DELETE /
ClearSessions ==
    /\ routeSessions' = clearAllSessions(routeSessions)
    /\ UNCHANGED <<clock, uuids>>
    /\ ChatUnchanged

Next ==
    \/ \E r \in 1..MaxSend : PostSend(r)
    \/ \E r \in 1..MaxSend : SendReply(r)
    \/ \E r \in 1..MaxSend : SendCatch(r)
    \/ PostSession
    \/ PatchSession
    \/ DeleteSession
    \/ ClearSessions

Spec == Init /\ [][Next]_vars

\* FairSpec: Spec where the engine call of every send settles: axios resolves
\* the promise with the answer or rejects it, at the latest when its timeout
\* of 30000 ms is over, and the event loop then resumes the handler
FairSpec ==
    Spec /\ \A r \in 1..MaxSend : WF_vars(SendReply(r) \/ SendCatch(r))

\* ChatSpec: the requests of routes/chat.ts alone, one more in a run
ChatNext ==
    \/ \E r \in 1..MaxChatSend : PostSend(r)
    \/ \E r \in 1..MaxChatSend : SendReply(r)
    \/ \E r \in 1..MaxChatSend : SendCatch(r)

ChatSpec == Init /\ [][ChatNext]_vars

----------------------------------------------------------------------------
(* BrowserSpec: ChatProvider of useChatContext.tsx against the routes.  Its  *)
(* state holds sessions (their ids, in list order) and currentSession (an id, *)
(* NoId for null); a sendMessage under way holds the currentSession of the    *)
(* render it was created in (closure).  The calls-th sendMessage is served by *)
(* the handler of that number.                                                *)

BrowserUnchanged == UNCHANGED <<sessions, last, sockets>>

\* sendMessage(content), to its first await
ChatProviderSendMessage ==
    /\ browser.pc = "idle"
    /\ browser.calls < MaxSend
    /\ browser' = [browser EXCEPT
                     !.pc = IF browser.currentSession = NoId THEN "create" ELSE "fetch",
                     !.calls = @ + 1,
                     !.closure = browser.currentSession,
                     !.created = NoId,
                     !.result = "none"]
    /\ UNCHANGED <<chatSessions, routeSessions, inflight, clock, uuids>>
    /\ BrowserUnchanged

\* createNewSession(), awaited by sendMessage: POST /api/sessions with {} is
\* served and its answer put into the state; the sendMessage that awaits it
\* keeps the currentSession it was created with
ChatProviderCreateNewSession ==
    /\ browser.pc = "create"
    /\ \E t1 \in Later(clock) : \E t2 \in Later(t1) :
        /\ routeSessions' = createSession(routeSessions, uuids + 1, NoFlow, t1, t2)
        /\ clock' = t2
    /\ uuids' = uuids + 1
    /\ browser' = [browser EXCEPT
                     !.pc = "fetch",
                     !.sessions = << uuids + 1 >> \o @,
                     !.currentSession = uuids + 1,
                     !.created = uuids + 1]
    /\ UNCHANGED <<chatSessions, inflight>>
    /\ BrowserUnchanged

\* sendMessage's fetch of POST /api/chat/send with {message: content,
\* sessionId: currentSession?.id}, served up to the handler's await
ChatProviderFetchSend ==
    /\ browser.pc = "fetch"
    /\ LET r == browser.calls
           body == [message |-> ShortText, sessionId |-> browser.closure,
                    flowId |-> NoFlow]
           found == body.sessionId # NoId /\ Has(chatSessions, body.sessionId)
           sid == IF found THEN body.sessionId ELSE uuids + 1
           mid == IF found THEN uuids + 1 ELSE uuids + 2
       IN  /\ SendMessageSchema(body)
           /\ \E t1 \in Later(clock) : \E t2 \in Later(t1) :
              \E t3 \in Later(t2) : \E t4 \in Later(t3) :
                LET map == IF found THEN chatSessions
                           ELSE createSession(chatSessions, sid, body.flowId, t1, t2)
                    userMessage ==
                        [id |-> mid, content |-> body.message, role |-> "user",
                         timestamp |-> t3, flowId |-> map[sid].flowId]
                IN  /\ (found => t1 = clock /\ t2 = clock)
                    /\ chatSessions' = addMessage(map, sid, userMessage, t4)
                    /\ inflight' = [inflight EXCEPT ![r] =
                           [pc |-> "await", body |-> body, resolved |-> TRUE,
                            found |-> found, session |-> sid,
                            userMessage |-> userMessage]]
                    /\ clock' = t4
                    /\ uuids' = mid
    /\ browser' = [browser EXCEPT !.pc = "wait"]
    /\ UNCHANGED routeSessions
    /\ BrowserUnchanged

\* sendMessage from the answer of POST /api/chat/send to its end
ChatProviderSendDone ==
    /\ browser.pc = "wait"
    /\ inflight[browser.calls].pc = "replied"
    /\ browser' =
         IF inflight[browser.calls].success
         THEN [browser EXCEPT
                 !.pc = "idle",
                 !.result = "ok",
                 !.currentSession = inflight[browser.calls].replySession.id]
         ELSE [browser EXCEPT !.pc = "idle", !.result = "failed"]
    /\ UNCHANGED <<chatSessions, routeSessions, inflight, clock, uuids>>
    /\ BrowserUnchanged

\* clearAllSessions(): DELETE /api/sessions is served and answers success
ChatProviderClearAllSessions ==
    /\ browser.pc = "idle"
    /\ browser.sessions # << >>
    /\ routeSessions' = clearAllSessions(routeSessions)
    /\ browser' = [browser EXCEPT !.sessions = << >>, !.currentSession = NoId]
    /\ UNCHANGED <<chatSessions, inflight, clock, uuids>>
    /\ BrowserUnchanged

BrowserNext ==
    \/ ChatProviderSendMessage
    \/ ChatProviderCreateNewSession
    \/ ChatProviderFetchSend
    \/ \E r \in 1..MaxSend : SendReply(r)
    \/ \E r \in 1..MaxSend : SendCatch(r)
    \/ ChatProviderSendDone
    \/ ChatProviderClearAllSessions

BrowserSpec == Init /\ [][BrowserNext]_vars

----------------------------------------------------------------------------
(* What the claims speak about *)

Handlers == DOMAIN inflight

\* the handler validated its request, resolved a session and appended its user message
Resolved(r) == inflight[r].pc \in {"await", "replied"} /\ inflight[r].resolved

\* the handler's engine call failed and it answered
Failed(r) == Resolved(r) /\ inflight[r].pc = "replied" /\ inflight[r].status = 500

\* the handler's engine call succeeded and it answered
Succeeded(r) == Resolved(r) /\ inflight[r].pc = "replied" /\ inflight[r].status = 200

Occurrences(messages, id) ==
    Cardinality({i \in 1..Len(messages) : messages[i].id = id})

RoleCount(messages, role) ==
    Cardinality({i \in 1..Len(messages) : messages[i].role = role})

PosOf(messages, id) == CHOOSE i \in 1..Len(messages) : messages[i].id = id

IsPrefix(a, b) == Len(a) <= Len(b) /\ SubSeq(b, 1, Len(a)) = a

\* C1: when the engine call of a send fails, the session the send resolved
\* still holds the user message of that send (once, unchanged), and holds
\* no assistant message other than those of the sends that succeeded on it.
C1_FailedSendKeepsUserMessage ==
    \A r \in Handlers : Failed(r) =>
        LET sid == inflight[r].session
            um == inflight[r].userMessage
        IN  /\ Has(chatSessions, sid)
            /\ Occurrences(chatSessions[sid].messages, um.id) = 1
            /\ chatSessions[sid].messages[PosOf(chatSessions[sid].messages, um.id)] = um
            /\ RoleCount(chatSessions[sid].messages, "assistant")
                 = Cardinality({q \in Handlers :
                                  Succeeded(q) /\ inflight[q].session = sid})

\* a send failed and its session holds its user message and nothing else
C1_Witness ==
    \E r \in Handlers :
        /\ Failed(r)
        /\ chatSessions[inflight[r].session].messages = << inflight[r].userMessage >>

\* C2: a send that was given a sessionId appends its user message to the
\* session with exactly that id.
C2_SendUsesSuppliedSession ==
    \A r \in Handlers :
        (Resolved(r) /\ inflight[r].body.sessionId # NoId)
            => inflight[r].session = inflight[r].body.sessionId

\* POST /send created a session for a supplied id that was not in the store
SendCreatesForMissing ==
    \E r \in Handlers :
        Resolved(r) /\ inflight[r].body.sessionId # NoId /\ ~inflight[r].found

\* GET /messages/:sessionId answers not-found for an id that is not in the store
GetMessagesRefusesMissing ==
    \E id \in KnownIds :
        GetMessagesSchema(id) /\ ~Has(chatSessions, id) /\ GetMessages(id).status = 404

\* C3: POST /send and GET /messages/:sessionId treat an id that is not in the
\* store the same way: never does one create a session while the other
\* answers not-found.
C3_OnePolicyForMissingId == ~(SendCreatesForMissing /\ GetMessagesRefusesMissing)

\* C4: the session routes and the chat routes read the same store: for every
\* id, GET /api/sessions/:id and GET /api/chat/messages/:id find the same
\* session or both find none.
C4_OneCanonicalStore ==
    \A id \in KnownIds :
        /\ GetSession(id).status = GetMessages(id).status
        /\ GetSession(id).status = 200 => GetSession(id).data = GetMessages(id).session

\* the sends that resolved session sid
SendsOn(sid) == {r \in Handlers : Resolved(r) /\ inflight[r].session = sid}

\* C5: whatever the interleaving, a session holds exactly one user message
\* for each send that resolved it and exactly one assistant message for each
\* of those sends whose engine call succeeded: no append is lost or doubled.
C5_ConcurrentSendsKeepEveryMessage ==
    \A sid \in DOMAIN chatSessions :
        LET msgs == chatSessions[sid].messages
            done == {r \in SendsOn(sid) : Succeeded(r)}
        IN  /\ RoleCount(msgs, "user") = Cardinality(SendsOn(sid))
            /\ RoleCount(msgs, "assistant") = Cardinality(done)
            /\ \A r \in SendsOn(sid) : Occurrences(msgs, inflight[r].userMessage.id) = 1
            /\ \A r \in done : Occurrences(msgs, inflight[r].assistantMessage.id) = 1

\* two sends were given the id of a stored session, waited for the engine at
\* the same time (each appended its user message before the other's assistant
\* message), and both succeeded
C5_Witness ==
    \E r1, r2 \in Handlers :
        /\ r1 # r2
        /\ Succeeded(r1) /\ Succeeded(r2)
        /\ inflight[r1].found /\ inflight[r2].found
        /\ inflight[r1].session = inflight[r2].session
        /\ LET msgs == chatSessions[inflight[r1].session].messages
           IN  /\ PosOf(msgs, inflight[r1].userMessage.id)
                    < PosOf(msgs, inflight[r2].assistantMessage.id)
               /\ PosOf(msgs, inflight[r2].userMessage.id)
                    < PosOf(msgs, inflight[r1].assistantMessage.id)

\* C6: the user message of a send that succeeded is directly followed, in its
\* session, by the assistant message of the same send.
C6_AppendsDoNotInterleave ==
    \A r \in Handlers : Succeeded(r) =>
        LET msgs == chatSessions[inflight[r].session].messages
            i == PosOf(msgs, inflight[r].userMessage.id)
        IN  i < Len(msgs) /\ msgs[i + 1] = inflight[r].assistantMessage

\* the result text for an engine body: the nested text when there is one,
\* otherwise the top-level result when there is one, otherwise "No response"
ResultText(data) ==
    IF data.text # Missing THEN data.text[1]
    ELSE IF data.result # Missing THEN data.result[1]
    ELSE NoResponse

\* C7: a send that succeeded answers {sessionId, userMessage, assistantMessage,
\* session} where the assistant message carries the engine's result text, the
\* session is the one named by sessionId, and its messages hold the user
\* message and, after it, the assistant message.
C7_SuccessfulSendReply ==
    \A r \in Handlers : Succeeded(r) =>
        LET reply == inflight[r]
            msgs == reply.replySession.messages
        IN  /\ reply.assistantMessage.role = "assistant"
            /\ reply.assistantMessage.content = ResultText(reply.data)
            /\ reply.replySession.id = reply.sessionId
            /\ reply.sessionId = reply.session
            /\ Occurrences(msgs, reply.userMessage.id) = 1
            /\ Occurrences(msgs, reply.assistantMessage.id) = 1
            /\ msgs[PosOf(msgs, reply.userMessage.id)] = reply.userMessage
            /\ msgs[PosOf(msgs, reply.assistantMessage.id)] = reply.assistantMessage
            /\ PosOf(msgs, reply.userMessage.id) < PosOf(msgs, reply.assistantMessage.id)

\* a send succeeded while another send had appended to the same session and
\* the session routes had created a session of their own
C7_Witness ==
    \E r \in Handlers :
        /\ Succeeded(r)
        /\ Len(inflight[r].replySession.messages) >= 3
        /\ routeSessions # EmptyMap

\* every session of the Map that is still there after the step has its old
\* messages as a prefix of its new ones
GrowsOnly(map, mapAfter) ==
    \A id \in DOMAIN map \cap DOMAIN mapAfter :
        IsPrefix(map[id].messages, mapAfter[id].messages)

AddMessageStep == last'.op = "addMessage" /\ last'.found

\* C9: addMessage on a stored session makes its messages the old messages
\* followed by the new one, and updatedAt is not earlier than before.
C9_AppendAddsOneAtTheEnd ==
    [][AddMessageStep =>
        /\ Has(sessions', last'.id)
        /\ sessions'[last'.id].messages = Append(sessions[last'.id].messages, last'.message)
        /\ Len(sessions'[last'.id].messages) = Len(sessions[last'.id].messages) + 1
        /\ sessions'[last'.id].updatedAt >= sessions[last'.id].updatedAt]_vars

\* a second message was appended to a session, after the clock had moved on
C9_Witness ==
    /\ last.op = "addMessage" /\ last.found
    /\ Len(sessions[last.id].messages) = 2
    /\ sessions[last.id].messages[1] # sessions[last.id].messages[2]
    /\ sessions[last.id].updatedAt > sessions[last.id].createdAt

\* C10: an append changes the title only when it makes the message count 1
\* and the message has role user; every other append leaves the title as it
\* was, and so does every call that is neither an append nor an update.
C10_TitleDerivedOnlyOnce ==
    [][/\ (AddMessageStep /\ ~(Len(sessions'[last'.id].messages) = 1
                               /\ last'.message.role = "user"))
            => sessions'[last'.id].title = sessions[last'.id].title
       /\ last'.op \notin {"addMessage", "updateSession"}
            => \A id \in DOMAIN sessions \cap DOMAIN sessions' :
                  sessions'[id].title = sessions[id].title]_vars

\* a second user message, with another content than the first, was appended
\* and the title is still the one derived from the first
C10_Witness ==
    /\ last.op = "addMessage" /\ last.found /\ last.message.role = "user"
    /\ Len(sessions[last.id].messages) = 2
    /\ sessions[last.id].messages[1].role = "user"
    /\ sessions[last.id].messages[1].content # last.message.content
    /\ sessions[last.id].title = DerivedTitle(sessions[last.id].messages[1].content)

\* the i-th character of a string
RECURSIVE CharAt(_, _)
CharAt(s, i) == IF i <= Head(s).n THEN Head(s).c ELSE CharAt(Tail(s), i - Head(s).n)

\* C11: when the first message appended to a session has role user, the
\* title becomes the content itself if the content has at most 50 characters,
\* and otherwise 53 characters: the first 50 of the content, then "...".
C11_TitleFromFirstUserMessage ==
    [][(AddMessageStep /\ sessions[last'.id].messages = << >>
                       /\ last'.message.role = "user") =>
        LET content == last'.message.content
            title == sessions'[last'.id].title
        IN  IF StrLen(content) <= 50
            THEN title = content
            ELSE /\ StrLen(title) = 53
                 /\ \A i \in 1..50 : CharAt(title, i) = CharAt(content, i)
                 /\ \A i \in 51..53 : CharAt(title, i) = "."]_vars

\* one session got a first user message of exactly 50 characters and has it
\* as its title, another got one of 51 characters and has a title of 53
C11_Witness ==
    \E id1, id2 \in DOMAIN sessions :
        /\ Len(sessions[id1].messages) = 1 /\ Len(sessions[id2].messages) = 1
        /\ sessions[id1].messages[1].role = "user"
        /\ sessions[id2].messages[1].role = "user"
        /\ StrLen(sessions[id1].messages[1].content) = 50
        /\ sessions[id1].title = sessions[id1].messages[1].content
        /\ StrLen(sessions[id2].messages[1].content) = 51
        /\ StrLen(sessions[id2].title) = 53

\* C12: updateSession on a stored session leaves the session as it was when
\* the partial names id, messages or createdAt, and in every case keeps the
\* session's id, createdAt and messages.
C12_UpdateKeepsIdentity ==
    [][(last'.op = "updateSession" /\ last'.found) =>
        LET before == sessions[last'.id]
            after == sessions'[last'.id]
        IN  /\ (DOMAIN last'.updates \cap {"id", "messages", "createdAt"} # {})
                  => after = before
            /\ after.id = before.id
            /\ after.createdAt = before.createdAt
            /\ after.messages = before.messages]_vars

\* C13: every stored session has updatedAt >= createdAt, and an addMessage or
\* updateSession on a stored session leaves its updatedAt not earlier than it
\* was and equal to the time the call read.
C13_UpdatedAtNotBeforeCreatedAt ==
    [][/\ \A id \in DOMAIN sessions' :
             sessions'[id].updatedAt >= sessions'[id].createdAt
       /\ (last'.op \in {"addMessage", "updateSession"} /\ last'.found) =>
             /\ sessions'[last'.id].updatedAt >= sessions[last'.id].updatedAt
             /\ sessions'[last'.id].updatedAt = clock']_vars

\* C14: createSession stores the session it returns, and that session has no
\* messages, the flowId it was given, and createdAt equal to updatedAt.
C14_CreateReturnsFreshSession ==
    [][last'.op = "createSession" =>
        /\ Has(sessions', last'.id)
        /\ getSession(sessions', last'.id).id = last'.id
        /\ getSession(sessions', last'.id).messages = << >>
        /\ getSession(sessions', last'.id).flowId = last'.flowId
        /\ getSession(sessions', last'.id).createdAt
             = getSession(sessions', last'.id).updatedAt]_vars

\* the places of the list that hold the session with this id
PlacesOf(list, id) == {i \in 1..Len(list) : list[i].id = id}

\* C15: getAllSessions returns every stored session exactly once, ordered by
\* updatedAt descending; and right after an append to a session A, A comes
\* before every session created after A (create A, create B, append to A
\* gives [A, B]), also when all updatedAt are equal.
C15_ListSortedByUpdatedAt ==
    LET list == getAllSessions(sessions)
    IN  /\ Len(list) = Cardinality(DOMAIN sessions)
        /\ \A id \in DOMAIN sessions :
              /\ Cardinality(PlacesOf(list, id)) = 1
              /\ \A i \in PlacesOf(list, id) : list[i] = sessions[id]
        /\ \A i, j \in 1..Len(list) :
              i < j => list[i].updatedAt >= list[j].updatedAt
        /\ (last.op = "addMessage" /\ last.found /\ Has(sessions, last.id)) =>
              \A b \in DOMAIN sessions : b > last.id =>
                  \A i \in PlacesOf(list, last.id) : \A j \in PlacesOf(list, b) : i < j

\* session 1 and session 2 were created and a message appended to session 1,
\* all within one tick of the clock, and the list is [1, 2]
C15_Witness ==
    /\ last.op = "addMessage" /\ last.found /\ last.id = 1
    /\ DOMAIN sessions = {1, 2}
    /\ sessions[2].messages = << >>
    /\ sessions[1].createdAt = sessions[2].createdAt
    /\ sessions[1].updatedAt = sessions[2].updatedAt
    /\ sessions[1].updatedAt = sessions[1].createdAt
    /\ getAllSessions(sessions)[1].id = 1
    /\ getAllSessions(sessions)[2].id = 2

\* C16: getSession, addMessage, updateSession and deleteSession called with
\* an id the store does not hold report not-found and leave the store as it
\* was: the same sessions, each with the same fields and messages.
C16_NotFoundLeavesStoreUnchanged ==
    [][(/\ last'.op \in {"getSession", "addMessage", "updateSession", "deleteSession"}
        /\ ~Has(sessions, last'.id)) =>
            /\ ~last'.found
            /\ sessions' = sessions]_vars

\* addMessage was called with an id the store does not hold, while the store
\* held a session with a message
C16_Witness ==
    /\ last.op = "addMessage" /\ ~last.found
    /\ ~Has(sessions, last.id)
    /\ \E id \in DOMAIN sessions : sessions[id].messages # << >>

\* C17: deleteSession returns true exactly when the store held the id;
\* afterwards the id is not in the store (a getSession is not-found and a
\* second deleteSession returns false) and every other session is as it was.
\* After clearAllSessions the store holds no session.
C17_DeleteRemovesOnlyThatSession ==
    [][/\ last'.op = "deleteSession" =>
            /\ last'.found = Has(sessions, last'.id)
            /\ ~Has(sessions', last'.id)
            /\ DOMAIN sessions' = DOMAIN sessions \ {last'.id}
            /\ \A id \in DOMAIN sessions' : sessions'[id] = sessions[id]
       /\ (last.op = "deleteSession" /\ last'.op \in {"getSession", "deleteSession"}
            /\ last'.id = last.id) => ~last'.found
       /\ last'.op = "clearAllSessions" => DOMAIN sessions' = {}]_vars

\* a session was deleted while the store held another one, which has a message
C17_Witness ==
    /\ last.op = "deleteSession" /\ last.found
    /\ \E id \in DOMAIN sessions : id < last.id /\ sessions[id].messages # << >>

\* C19: for a 2xx answer with an object body sendMessage returns, and its
\* result is the nested text when the body has one (an empty string
\* included), otherwise the top-level result when the body has one,
\* otherwise "No response".
C19_ResultIsFirstFieldPresent ==
    (last.op = "sendMessage" /\ last.outcome.kind = "response") =>
        /\ last.reply.returned
        /\ last.reply.value.result = ResultText(last.outcome.data)

\* C20: a sendMessage that failed throws an UpstreamUnavailable for a
\* transport failure or timeout and an UpstreamError for a non-2xx status,
\* the latter holding the engine's status code.
C20_FailureClasses ==
    (last.op = "sendMessage" /\ last.outcome.kind \in {"network", "timeout", "status"}) =>
        /\ ~last.reply.returned
        /\ IF last.outcome.kind = "status"
           THEN /\ last.reply.error.name = "UpstreamError"
                /\ "status" \in DOMAIN last.reply.error
                /\ last.reply.error.status = last.outcome.status
           ELSE last.reply.error.name = "UpstreamUnavailable"

\* C21: a send whose body fails validation is answered by a handler that goes
\* straight from idle to replied (it never awaits the engine), and that step
\* creates no session, appends no message, and answers with a 4xx status and
\* success false.
C21_InvalidSendIsClientError ==
    [][\A r \in Handlers :
         (inflight[r].pc = "idle" /\ inflight'[r].pc = "replied") =>
            /\ chatSessions' = chatSessions
            /\ routeSessions' = routeSessions
            /\ uuids' = uuids
            /\ ~inflight'[r].success
            /\ inflight'[r].status \in 400..499]_vars

\* the step is the 'message' listener of a connection handling a frame
FrameStep == last'.op = "frame"

\* the frame parses to an object that has a type
IsEnvelope(frame) == frame.json = "object" /\ frame.type # Missing

\* C22: a connection that was opened has sent the frame {type: "status",
\* data: {status: "connected", timestamp}} first, whatever it sent after it,
\* and a connection that was not opened has sent nothing.
C22_ConnectedFrameFirst ==
    \A c \in DOMAIN sockets :
        IF sockets[c].state = "none" THEN sockets[c].sent = << >>
        ELSE /\ sockets[c].sent # << >>
             /\ sockets[c].sent[1].type = "status"
             /\ DOMAIN sockets[c].sent[1].data = {"status", "timestamp"}
             /\ sockets[c].sent[1].data.status = Str("connected")
             /\ \A i \in 2..Len(sockets[c].sent) :
                   sockets[c].sent[i].type \in {"message", "error"}

\* a connection has sent the confirmation, then an error frame and an echo
C22_Witness ==
    \E c \in DOMAIN sockets :
        /\ Len(sockets[c].sent) = 3
        /\ {sockets[c].sent[2].type, sockets[c].sent[3].type} = {"message", "error"}

\* C23 as stated: a frame of type "message" is answered with one frame of
\* type "message" whose data has every field of the incoming data with its
\* value, and echo = true and the timestamp read in the step.
C23_EchoKeepsEveryField ==
    [][(FrameStep /\ TypeOf(last'.frame) = Given("message")) =>
        LET c == last'.conn
            data == IF last'.frame.data = Missing THEN EmptyObject
                    ELSE last'.frame.data[1]
        IN  /\ Len(sockets'[c].sent) = Len(sockets[c].sent) + 1
            /\ SubSeq(sockets'[c].sent, 1, Len(sockets[c].sent)) = sockets[c].sent
            /\ LET reply == sockets'[c].sent[Len(sockets'[c].sent)]
               IN  /\ reply.type = "message"
                   /\ \A k \in DOMAIN data :
                         k \in DOMAIN reply.data /\ reply.data[k] = data[k]
                   /\ reply.data.echo = TRUE
                   /\ reply.data.timestamp = Iso(clock')]_vars

\* C23 amended: a frame of type "message" is answered with one frame of type
\* "message" whose data has every field of the incoming data other than echo
\* and timestamp with its value, and echo = true and the timestamp read in
\* the step, which replace an echo or timestamp of the incoming data.
C23_EchoKeepsOtherFields ==
    [][(FrameStep /\ TypeOf(last'.frame) = Given("message")) =>
        LET c == last'.conn
            data == IF last'.frame.data = Missing THEN EmptyObject
                    ELSE last'.frame.data[1]
        IN  /\ Len(sockets'[c].sent) = Len(sockets[c].sent) + 1
            /\ SubSeq(sockets'[c].sent, 1, Len(sockets[c].sent)) = sockets[c].sent
            /\ LET reply == sockets'[c].sent[Len(sockets'[c].sent)]
               IN  /\ reply.type = "message"
                   /\ DOMAIN reply.data = DOMAIN data \cup {"echo", "timestamp"}
                   /\ \A k \in DOMAIN data \ {"echo", "timestamp"} :
                         reply.data[k] = data[k]
                   /\ reply.data.echo = TRUE
                   /\ reply.data.timestamp = Iso(clock')]_vars

\* a frame of type "message" whose data has echo: false was answered with
\* echo: true and the text it came with
C23_Witness ==
    /\ last.op = "frame" /\ TypeOf(last.frame) = Given("message")
    /\ last.frame.data = Given([text |-> Str("hi"), echo |-> FALSE])
    /\ LET sent == sockets[last.conn].sent
       IN  /\ sent[Len(sent)].type = "message"
           /\ sent[Len(sent)].data.echo = TRUE
           /\ sent[Len(sent)].data.text = Str("hi")

\* C24: a frame that parses to an envelope whose type is "status", "typing",
\* "error" or one the handler does not know is answered with no frame, and
\* the connection stays as it was.
C24_OtherTypesGetNoReply ==
    [][(FrameStep /\ IsEnvelope(last'.frame) /\ last'.frame.type # Given("message")) =>
        /\ sockets'[last'.conn].sent = sockets[last'.conn].sent
        /\ sockets'[last'.conn].state = sockets[last'.conn].state
        /\ \A c \in DOMAIN sockets \ {last'.conn} : sockets'[c] = sockets[c]]_vars

\* a frame of type "status" came in on a connection that has sent nothing
\* but its confirmation
C24_Witness ==
    /\ last.op = "frame" /\ TypeOf(last.frame) = Given("status")
    /\ sockets[last.conn].state = "open"
    /\ Len(sockets[last.conn].sent) = 1

\* C25: a frame that is no envelope (a text that is no JSON, or JSON that is
\* no object with a type) is answered with exactly the one frame {type:
\* "error", data: {error: "Invalid message format"}}, and the connection
\* stays open.
C25_MalformedGetsErrorFrame ==
    [][(FrameStep /\ ~IsEnvelope(last'.frame)) =>
        /\ sockets'[last'.conn].sent = Append(sockets[last'.conn].sent, ErrorFrame)
        /\ sockets'[last'.conn].state = "open"]_vars

\* C26: while the engine call of a send is in flight, the session the send
\* resolved is stored and holds the send's user message once, and the
\* assistant messages it holds are those of the sends on it that have
\* succeeded, so none is this send's; a send that succeeded has its assistant
\* message after its user message.
C26_SendStepsInOrder ==
    \A r \in Handlers :
        /\ inflight[r].pc = "await" =>
            /\ Has(chatSessions, inflight[r].session)
            /\ LET msgs == chatSessions[inflight[r].session].messages
               IN  /\ Occurrences(msgs, inflight[r].userMessage.id) = 1
                   /\ RoleCount(msgs, "assistant")
                        = Cardinality({q \in SendsOn(inflight[r].session) : Succeeded(q)})
                   /\ \A q \in SendsOn(inflight[r].session) : Succeeded(q) =>
                         Occurrences(msgs, inflight[q].assistantMessage.id) = 1
        /\ Succeeded(r) =>
            LET msgs == chatSessions[inflight[r].session].messages
            IN  PosOf(msgs, inflight[r].userMessage.id)
                    < PosOf(msgs, inflight[r].assistantMessage.id)

\* the engine call of one send is in flight on a session on which another
\* send has succeeded since this one appended its user message
C26_Witness ==
    \E r, q \in Handlers :
        /\ inflight[r].pc = "await" /\ Succeeded(q)
        /\ inflight[q].session = inflight[r].session
        /\ LET msgs == chatSessions[inflight[r].session].messages
           IN  PosOf(msgs, inflight[r].userMessage.id)
                   < PosOf(msgs, inflight[q].assistantMessage.id)

\* the session is still in the Map after the step, with the messages, title,
\* flowId and updatedAt it had
Untouched(map, mapAfter, id) ==
    /\ id \in DOMAIN mapAfter
    /\ mapAfter[id].messages = map[id].messages
    /\ mapAfter[id].title = map[id].title
    /\ mapAfter[id].flowId = map[id].flowId
    /\ mapAfter[id].updatedAt = map[id].updatedAt

NextSlot(q) == inflight[q].pc = "idle" /\ \A p \in 1..(q - 1) : inflight[p].pc # "idle"

\* C28: a send that awaits the engine is answered in the end; and while it
\* awaits, a new send can be taken up to its own await, every awaiting send
\* can be answered, and the session routes can be served.
C28_SendsReturnAndDoNotBlock ==
    /\ \A r \in 1..MaxSend : (inflight[r].pc = "await") ~> (inflight[r].pc = "replied")
    /\ [](\A r \in Handlers : inflight[r].pc = "await" =>
            /\ \A q \in Handlers : NextSlot(q) => ENABLED PostSend(q)
            /\ \A q \in Handlers : inflight[q].pc = "await" =>
                  ENABLED SendReply(q) /\ ENABLED SendCatch(q)
            /\ ENABLED PatchSession
            /\ ENABLED DeleteSession)

\* the first send still awaits the engine while the second, which came in
\* after it, has been answered with success
C28_Witness ==
    /\ inflight[1].pc = "await"
    /\ Succeeded(2)

\* C29: a send without a sessionId adds one session to the store of the chat
\* routes, holding exactly the send's user message; when its engine call
\* fails, the answer carries no sessionId and the store stays as it is, so
\* the session is still there, with that one message unless another send
\* has appended to it.
C29_FailedSendLeavesNewSession ==
    [][\A r \in Handlers :
        /\ (inflight[r].pc = "idle" /\ inflight'[r].pc = "await"
                /\ inflight'[r].body.sessionId = NoId) =>
            /\ ~Has(chatSessions, inflight'[r].session)
            /\ DOMAIN chatSessions' = DOMAIN chatSessions \cup {inflight'[r].session}
            /\ chatSessions'[inflight'[r].session].messages = << inflight'[r].userMessage >>
        /\ (inflight[r].pc = "await" /\ inflight'[r].pc = "replied"
                /\ inflight'[r].status = 500 /\ inflight[r].body.sessionId = NoId) =>
            /\ chatSessions' = chatSessions
            /\ Has(chatSessions', inflight[r].session)
            /\ "sessionId" \notin DOMAIN inflight'[r]
            /\ "replySession" \notin DOMAIN inflight'[r]
            /\ SendsOn(inflight[r].session) = {r} =>
                  chatSessions'[inflight[r].session].messages = << inflight[r].userMessage >>]_vars

\* a send without a sessionId failed and the session it created is in the
\* store with its user message alone, next to the session of another send
C29_Witness ==
    \E r \in Handlers :
        /\ Failed(r) /\ inflight[r].body.sessionId = NoId
        /\ chatSessions[inflight[r].session].messages = << inflight[r].userMessage >>
        /\ Cardinality(DOMAIN chatSessions) = 2

\* C30: a sendMessage that was called with no current session and has ended
\* with success sent its message with the id of the session createNewSession
\* made for it, the message is in that session, and that session is the
\* current one; no other session was created for the message.
C30_FirstMessageGoesToCreatedSession ==
    (browser.pc = "idle" /\ browser.result = "ok" /\ browser.closure = NoId) =>
        LET send == inflight[browser.calls]
        IN  /\ browser.created # NoId
            /\ send.body.sessionId = browser.created
            /\ send.session = browser.created
            /\ send.found
            /\ browser.currentSession = browser.created

====
